---- MODULE Spec2Model ----
(***************************************************************************)
(* State-machine model of progress/__init__.py: the Infinite indicator and *)
(* the bounded Progress indicator.                                         *)
(*                                                                         *)
(* One indicator object is modelled together with the two pieces of the    *)
(* outside world it touches: the output stream (the list of print() calls  *)
(* it received) and the atexit registry.  The methods of the two classes   *)
(* are operators from an object record to an object record, so that a      *)
(* method calling another method is operator composition, as in the code.  *)
(* The monotonic clock is integer valued: int(monotonic() - start_ts) is   *)
(* then the difference itself.  update() is the no-op of the base class:   *)
(* the module defines no renderer.                                         *)
(*                                                                         *)
(* st.calls, op, gen.starts/finishes/nexts and activeSecs are history:     *)
(* they record which methods a step called and how long the indicator was  *)
(* Active, and are read by the properties only.                            *)
(***************************************************************************)
EXTENDS Integers, Sequences, FiniteSets, TLC

\* ------------------------------------------------------------- bounds
MaxClock == 3       \* the clock runs 0..MaxClock
MaxIndex == 3       \* index is kept within -MaxIndex..MaxIndex
MaxOut   == 4       \* no call is made once the stream holds more prints than this
MaxSeq   == 2       \* iter() wraps sequences of 0..MaxSeq elements
MaxStr   == 2       \* fragments given to write() have 0..MaxStr characters

\* ------------------------------------------------ program constants
DefaultMax == 100

HIDE_CURSOR == <<"ESC[?25l">>
SHOW_CURSOR == <<"ESC[?25h">>
NEWLINE     == <<"\n">>
CLEARLN     == <<"\r", "ESC[K">>

VARIABLES
    st,         \* the indicator object, its stream and the atexit registry
    now,        \* the monotonic clock
    gen,        \* the scope in progress: iter()'s generator or a with block
    op,         \* the call made by the last step
    activeSecs, \* seconds the indicator has spent Active (ground truth)
    exited      \* the process has exited (atexit handlers have run)

vars == <<st, now, gen, op, activeSecs, exited>>

\* ------------------------------------------------------------ strings
Str(c, n) == [i \in 1..n |-> c]

\* str.ljust(width): pad on the right with spaces up to width characters
ljust(s, w) == IF Len(s) >= w THEN s ELSE s \o Str(" ", w - Len(s))

Max2(a, b) == IF a >= b THEN a ELSE b

\* ------------------------------------------------- call bookkeeping
Methods == {"start", "finish", "update", "next"}
NoCalls == [m \in Methods |-> 0]

\* one more call of method m during the current step
Called(s, m) == [s EXCEPT !.calls[m] = @ + 1]

\* a new step begins: no call made yet, no exception raised
Fresh(s) == [s EXCEPT !.calls = NoCalls, !.err = "none"]

\* ------------------------------------------------------ the stream
\* print(text, end='', file=self.file): one more item on the stream
print(s, text) == [s EXCEPT !.out = Append(@, text)]

\* mutant: the handler is never registered
atexit_register_forgotten(s) == s

\* atexit.register(self.finish)
atexit_register(s) == [s EXCEPT !.atexit = @ + 1]

\* atexit.unregister(self.finish): drops every registration, never raises
atexit_unregister(s) == [s EXCEPT !.atexit = 0]

\* ------------------------------------------------------- Infinite
\* self.file.isatty() if self.check_tty else True
is_tty(s) == IF s.check_tty THEN s.file = "tty" ELSE TRUE

\* mutant: a stream without isatty is reported as not a terminal
is_tty_never_raises(s) == FALSE

\* is_tty() raises AttributeError: the stream has no isatty
is_tty_raises(s) == s.file # "none" /\ s.check_tty /\ s.file = "noisatty"

\* mutant: the guard tests the stream only, not is_tty()
Renders_ignores_tty(s) == s.file # "none"

\* the guard `self.file and self.is_tty()`
Renders(s) == s.file # "none" /\ is_tty(s)

\* mutant: the accumulated seconds are left out
elapsed_live_only(s, t) == t - s.start_ts

\* elapsed at clock reading t
elapsed(s, t) == (t - s.start_ts) + s.total_used_ts

\* avg as a fraction <<numerator, denominator>>: elapsed / index, or 0
avg(s, t) == IF s.index > 0 THEN <<elapsed(s, t), s.index>> ELSE <<0, 1>>

update(s) == Called(s, "update")

start(s) ==
    LET s1 == Called(s, "start")
    IN  IF s.cls = "Progress" THEN update(s1) ELSE s1

clearln(s) == IF Renders(s) THEN print(s, CLEARLN) ELSE s

\* mutant: the fragment is printed without padding
write_no_pad(s, frag) ==
    IF Renders(s)
    THEN LET line == s.message \o frag
             s1   == print(s, <<"\r">> \o line)
         IN  [s1 EXCEPT !.width = Max2(s.width, Len(frag))]
    ELSE s

write(s, frag) ==
    IF Renders(s)
    THEN LET line == s.message \o ljust(frag, s.width)
             s1   == print(s, <<"\r">> \o line)
         IN  [s1 EXCEPT !.width = Max2(s.width, Len(frag))]
    ELSE s

writeln(s, line) ==
    IF Renders(s) THEN print(clearln(s), line) ELSE s

\* mutant: the cursor is shown before the newline is printed
finish_show_first(s, t) ==
    LET s0 == Called(s, "finish")
    IN  IF Renders(s0)
        THEN LET s1 == [s0 EXCEPT !.shutdown = TRUE,
                                  !.total_used_ts = elapsed(s0, t)]
             IN  IF s1.hide_cursor
                 THEN print(atexit_unregister(print(s1, SHOW_CURSOR)), NEWLINE)
                 ELSE print(s1, NEWLINE)
        ELSE s0

finish(s, t) ==
    LET s0 == Called(s, "finish")
    IN  IF Renders(s0)
        THEN LET s1 == [s0 EXCEPT !.shutdown = TRUE,
                                  !.total_used_ts = elapsed(s0, t)]
                 s2 == print(s1, NEWLINE)
             IN  IF s2.hide_cursor
                 THEN atexit_unregister(print(s2, SHOW_CURSOR))
                 ELSE s2
        ELSE s0

\* mutant: a finished indicator is made active again without restarting
\* its start timestamp
next_no_restart(s, n, t) ==
    LET s0 == Called(s, "next")
        s1 == IF s0.shutdown THEN [s0 EXCEPT !.shutdown = FALSE] ELSE s0
    IN  update([s1 EXCEPT !.index = @ + n])

\* mutant: restarting a finished indicator starts index over
next_restart_resets_index(s, n, t) ==
    LET s0 == Called(s, "next")
        s1 == IF s0.shutdown
              THEN [s0 EXCEPT !.start_ts = t, !.shutdown = FALSE, !.index = 0]
              ELSE s0
    IN  update([s1 EXCEPT !.index = @ + n])

\* mutant: the index is advanced but update() is not called
next_no_update(s, n, t) ==
    LET s0 == Called(s, "next")
        s1 == IF s0.shutdown
              THEN [s0 EXCEPT !.start_ts = t, !.shutdown = FALSE]
              ELSE s0
    IN  [s1 EXCEPT !.index = @ + n]

next(s, n, t) ==
    LET s0 == Called(s, "next")
        s1 == IF s0.shutdown
              THEN [s0 EXCEPT !.start_ts = t, !.shutdown = FALSE]
              ELSE s0
    IN  update([s1 EXCEPT !.index = @ + n])

\* Infinite.__init__(message, file=, check_tty=, hide_cursor=) at clock t
init_Infinite(message, file, check_tty, hide_cursor, t) ==
    LET s0 == [cls |-> "Infinite", index |-> 0, start_ts |-> t,
               file |-> file, check_tty |-> check_tty,
               hide_cursor |-> hide_cursor,
               total_used_ts |-> 0, width |-> 0, message |-> message,
               shutdown |-> FALSE, max |-> 0,
               out |-> <<>>, atexit |-> 0,
               calls |-> NoCalls, err |-> "none"]
    IN  IF is_tty_raises(s0)
        THEN [s0 EXCEPT !.err = "AttributeError"]
        ELSE IF Renders(s0)
        THEN LET s1 == IF s0.hide_cursor
                       THEN atexit_register(print(s0, HIDE_CURSOR))
                       ELSE s0
             IN  print(s1, s1.message)
        ELSE s0

\* ------------------------------------------------------- Progress
\* Progress.__init__: the base constructor, then max = kwargs.get('max', 100)
init_Progress(message, file, check_tty, hide_cursor, max, t) ==
    LET s0 == init_Infinite(message, file, check_tty, hide_cursor, t)
    IN  IF s0.err # "none" THEN [s0 EXCEPT !.cls = "Progress"]
        ELSE [s0 EXCEPT !.cls = "Progress", !.max = max]

\* progress as a fraction <<numerator, denominator>>
progress(s) ==
    IF s.max <= 0 THEN <<1, 1>>
    ELSE IF s.index >= s.max THEN <<1, 1>>      \* min(1, index / max)
    ELSE <<s.index, s.max>>

\* percent = progress * 100, as a fraction
percent(s) == <<progress(s)[1] * 100, progress(s)[2]>>

\* mutant: the difference is not clamped at 0
remaining_unclamped(s) == s.max - s.index

remaining(s) == Max2(s.max - s.index, 0)

\* math.ceil of the fraction a / b, b > 0
ceil(a, b) == -((-a) \div b)

\* mutant: the product is truncated, not rounded up
eta_truncated(s, t) == (avg(s, t)[1] * remaining(s)) \div avg(s, t)[2]

\* int(ceil(self.avg * self.remaining))
eta(s, t) == ceil(avg(s, t)[1] * remaining(s), avg(s, t)[2])

\* mutant: the target is passed on as if it were the increment
goto_as_delta(s, k, t) == next(s, k, t)

goto(s, k, t) ==
    LET incr == k - s.index
    IN  next(s, incr, t)

\* ------------------------------------------------------ the state
Files    == {"none", "tty", "notty", "noisatty"}
Messages == {Str("m", 1)}
MaxArgs  == {-1, 2, DefaultMax}
Frags    == {Str("x", n) : n \in 0..MaxStr}
Steps    == {1, 2, -1}

NoGen == [pc |-> "none", kind |-> "none", n |-> 0, sized |-> FALSE, k |-> 0,
          base |-> 0, max0 |-> 0, starts |-> 0, finishes |-> 0,
          nexts |-> 0, exit |-> "none"]

NoOp == [name |-> "init", arg |-> 0, from |-> 0]

Init ==
    /\ now = 0
    /\ \E message \in Messages, file \in Files, check_tty \in BOOLEAN,
          hide_cursor \in BOOLEAN :
          \/ st = init_Infinite(message, file, check_tty, hide_cursor, 0)
          \/ \E max \in MaxArgs :
                st = init_Progress(message, file, check_tty, hide_cursor, max, 0)
    /\ gen = NoGen
    /\ op = NoOp
    /\ activeSecs = 0
    /\ exited = FALSE

\* the object exists (its constructor returned) and the process is running
Alive == st.err # "AttributeError" /\ ~exited

\* a caller may use the object: not while iter()'s generator is suspended
Callable == Alive /\ gen.pc \in {"none", "inside", "done"} /\ Len(st.out) <= MaxOut

\* a finished scope is forgotten at the caller's next call
After(g) == IF g.pc = "done" THEN NoGen ELSE g

InRange(i) == -MaxIndex <= i /\ i <= MaxIndex

\* the clock advances by one second
Tick ==
    /\ ~exited
    /\ now < MaxClock
    /\ now' = now + 1
    /\ activeSecs' = activeSecs + (IF st.shutdown THEN 0 ELSE 1)
    /\ UNCHANGED <<st, gen, op, exited>>

CallNext ==
    \E n \in Steps :
        /\ Callable
        /\ InRange(st.index + n)
        /\ st' = next(Fresh(st), n, now)
        /\ op' = [name |-> "next", arg |-> n, from |-> st.index]
        /\ gen' = After(gen)
        /\ UNCHANGED <<now, activeSecs, exited>>

CallGoto ==
    \E k \in -MaxIndex..MaxIndex :
        /\ Callable
        /\ st.cls = "Progress"
        /\ st' = goto(Fresh(st), k, now)
        /\ op' = [name |-> "goto", arg |-> k, from |-> st.index]
        /\ gen' = After(gen)
        /\ UNCHANGED <<now, activeSecs, exited>>

CallFinish ==
    /\ Callable
    /\ st' = finish(Fresh(st), now)
    /\ op' = [name |-> "finish", arg |-> 0, from |-> st.index]
    /\ gen' = After(gen)
    /\ UNCHANGED <<now, activeSecs, exited>>

CallStart ==
    /\ Callable
    /\ st' = start(Fresh(st))
    /\ op' = [name |-> "start", arg |-> 0, from |-> st.index]
    /\ gen' = After(gen)
    /\ UNCHANGED <<now, activeSecs, exited>>

CallWrite ==
    \E frag \in Frags :
        /\ Callable
        /\ st' = write(Fresh(st), frag)
        /\ op' = [name |-> "write", arg |-> Len(frag), from |-> st.index]
        /\ gen' = After(gen)
        /\ UNCHANGED <<now, activeSecs, exited>>

CallWriteln ==
    \E line \in Frags :
        /\ Callable
        /\ st' = writeln(Fresh(st), line)
        /\ op' = [name |-> "writeln", arg |-> Len(line), from |-> st.index]
        /\ gen' = After(gen)
        /\ UNCHANGED <<now, activeSecs, exited>>

CallClearln ==
    /\ Callable
    /\ st' = clearln(Fresh(st))
    /\ op' = [name |-> "clearln", arg |-> 0, from |-> st.index]
    /\ gen' = After(gen)
    /\ UNCHANGED <<now, activeSecs, exited>>

\* ------------------------------------------------ iter() and with
\* __enter__: start(), and the block is entered
enter(s) == start(s)

\* __exit__(exc_type, exc_val, exc_tb): finish(), whatever the exit was
exit(s, t) == finish(s, t)

\* mutant: a sequence without a length resets max
iter_enter_unsized_zero(s, n, sized) ==
    enter([s EXCEPT !.max = IF s.cls = "Progress" /\ sized THEN n ELSE 0])

\* mutant: the length of the sequence is not taken
iter_enter_no_len(s, n, sized) == enter(s)

\* the statements of iter() up to the loop: Progress.iter first tries
\* self.max = len(it); then `with self:` enters
iter_enter(s, n, sized) ==
    LET s1 == IF s.cls = "Progress" /\ sized THEN [s EXCEPT !.max = n] ELSE s
    IN  enter(s1)

\* mutant: next() is called before the element is yielded, not after
iter_resume_eager(s, g, t) ==
    LET s1   == IF g.pc = "created" THEN iter_enter(s, g.n, g.sized) ELSE s
        more == g.k < g.n
        s2   == IF more THEN next(s1, 1, t) ELSE exit(s1, t)
    IN  <<s2, [g EXCEPT !.pc = IF more THEN "yielded" ELSE "done",
                        !.k = IF more THEN @ + 1 ELSE @,
                        !.exit = IF more THEN "none" ELSE "exhausted",
                        !.starts = @ + s2.calls["start"],
                        !.nexts = @ + s2.calls["next"],
                        !.finishes = @ + s2.calls["finish"]]>>

\* The consumer asks the generator g for its next element at clock t: the
\* generator runs from where it stands (its first statement, or the yield)
\* to its next yield, or leaves the with block when the sequence is
\* exhausted.  Result: <<object, generator>>.
iter_resume(s, g, t) ==
    LET s1   == IF g.pc = "created" THEN iter_enter(s, g.n, g.sized)
                ELSE next(s, 1, t)
        more == g.k < g.n
        s2   == IF more THEN s1 ELSE exit(s1, t)
    IN  <<s2, [g EXCEPT !.pc = IF more THEN "yielded" ELSE "done",
                        !.k = IF more THEN @ + 1 ELSE @,
                        !.exit = IF more THEN "none" ELSE "exhausted",
                        !.starts = @ + s2.calls["start"],
                        !.nexts = @ + s2.calls["next"],
                        !.finishes = @ + s2.calls["finish"]]>>

\* mutant: the loop is not inside `with self:`, closing runs nothing
iter_close_no_with(s, g, t, how) == <<s, [g EXCEPT !.pc = "done", !.exit = how]>>

\* The generator is closed while suspended at its yield (the consumer left
\* its loop by `how`): GeneratorExit is raised at the yield and leaves the
\* with block.  A generator that never ran just ends.
iter_close(s, g, t, how) ==
    LET s1 == IF g.pc = "yielded" THEN exit(s, t) ELSE s
    IN  <<s1, [g EXCEPT !.pc = "done", !.exit = how,
                        !.finishes = @ + s1.calls["finish"]]>>

\* bar.iter(it) is called: a generator object is made, nothing runs yet
IterCall ==
    \E n \in 0..MaxSeq, sized \in BOOLEAN :
        /\ Callable
        /\ gen.pc \in {"none", "done"}
        /\ InRange(st.index + n)
        /\ gen' = [NoGen EXCEPT !.pc = "created", !.kind = "iter", !.n = n,
                                !.sized = sized, !.base = st.index,
                                !.max0 = st.max]
        /\ op' = [name |-> "iter", arg |-> n, from |-> st.index]
        /\ UNCHANGED <<st, now, activeSecs, exited>>

\* the consumer's loop asks for the next element
IterResume ==
    /\ Alive
    /\ gen.kind = "iter" /\ gen.pc \in {"created", "yielded"}
    /\ LET r == iter_resume(Fresh(st), gen, now)
       IN  st' = r[1] /\ gen' = r[2]
    /\ op' = [name |-> "resume", arg |-> 0, from |-> st.index]
    /\ UNCHANGED <<now, activeSecs, exited>>

\* the consumer breaks out of its loop while holding an element: the loop
\* drops the generator, which closes it
ConsumerBreak ==
    /\ Alive
    /\ gen.kind = "iter" /\ gen.pc = "yielded"
    /\ LET r == iter_close(Fresh(st), gen, now, "break")
       IN  st' = r[1] /\ gen' = r[2]
    /\ op' = [name |-> "break", arg |-> 0, from |-> st.index]
    /\ UNCHANGED <<now, activeSecs, exited>>

\* the consumer's loop body raises while holding an element: unwinding the
\* loop drops the generator, which closes it
ConsumerRaise ==
    /\ Alive
    /\ gen.kind = "iter" /\ gen.pc = "yielded"
    /\ LET r == iter_close(Fresh(st), gen, now, "raise")
       IN  st' = r[1] /\ gen' = r[2]
    /\ op' = [name |-> "raise", arg |-> 0, from |-> st.index]
    /\ UNCHANGED <<now, activeSecs, exited>>

\* the consumer drops the generator without ever asking for an element
ConsumerDrop ==
    /\ Alive
    /\ gen.kind = "iter" /\ gen.pc = "created"
    /\ LET r == iter_close(Fresh(st), gen, now, "dropped")
       IN  st' = r[1] /\ gen' = r[2]
    /\ op' = [name |-> "drop", arg |-> 0, from |-> st.index]
    /\ UNCHANGED <<now, activeSecs, exited>>

\* `with bar:` is entered
WithEnter ==
    /\ Callable
    /\ gen.pc \in {"none", "done"}
    /\ st' = enter(Fresh(st))
    /\ gen' = [NoGen EXCEPT !.pc = "inside", !.kind = "with",
                            !.base = st.index,
                            !.starts = st'.calls["start"]]
    /\ op' = [name |-> "enter", arg |-> 0, from |-> st.index]
    /\ UNCHANGED <<now, activeSecs, exited>>

\* the with block is left, by falling off its end or by an exception
WithExit ==
    \E how \in {"normal", "raise"} :
        /\ Alive
        /\ gen.kind = "with" /\ gen.pc = "inside"
        /\ st' = exit(Fresh(st), now)
        /\ gen' = [gen EXCEPT !.pc = "done", !.exit = how,
                              !.finishes = @ + st'.calls["finish"]]
        /\ op' = [name |-> "exit", arg |-> 0, from |-> st.index]
        /\ UNCHANGED <<now, activeSecs, exited>>

\* the process exits: the registered atexit handlers run
ProcessExit ==
    /\ ~exited
    /\ st' = IF st.atexit > 0 THEN finish(Fresh(st), now) ELSE Fresh(st)
    /\ exited' = TRUE
    /\ op' = [name |-> "atexit", arg |-> 0, from |-> st.index]
    /\ UNCHANGED <<now, gen, activeSecs>>

\* ------------------------------------------------ specifications
\* Spec: the life cycle of every indicator that can be constructed, driven
\* by direct calls: the clock, next, goto, start, finish, process exit.
Next ==
    \/ Tick
    \/ CallNext
    \/ CallGoto
    \/ CallFinish
    \/ CallStart
    \/ ProcessExit

Spec == Init /\ [][Next]_vars

\* SpecScope: every indicator that can be constructed, driven through
\* iter() and with blocks (and direct calls around and inside them), at
\* one reading of the clock.
NextScope ==
    \/ CallNext
    \/ CallFinish
    \/ IterCall
    \/ IterResume
    \/ ConsumerBreak
    \/ ConsumerRaise
    \/ ConsumerDrop
    \/ WithEnter
    \/ WithExit

SpecScope == Init /\ [][NextScope]_vars

\* SpecOff: the indicators whose stream is absent or is not a terminal,
\* driven by every operation.
InitOff == Init /\ (st.file = "none" \/ (st.file = "notty" /\ st.check_tty))

NextOff ==
    \/ Tick
    \/ CallNext
    \/ CallGoto
    \/ CallFinish
    \/ CallStart
    \/ CallWrite
    \/ CallWriteln
    \/ CallClearln
    \/ IterCall
    \/ IterResume
    \/ ConsumerBreak
    \/ ConsumerRaise
    \/ ConsumerDrop
    \/ WithEnter
    \/ WithExit
    \/ ProcessExit

SpecOff == InitOff /\ [][NextOff]_vars

\* SpecIO: the indicators on a terminal, or on a stream without isatty,
\* written to by write, writeln, clearln, finish and next, at one reading
\* of the clock.
InitIO == Init /\ st.file \in {"tty", "noisatty"}

NextIO ==
    \/ CallNext
    \/ CallFinish
    \/ CallWrite
    \/ CallWriteln
    \/ CallClearln

SpecIO == InitIO /\ [][NextIO]_vars

\* SpecAll: an indicator of either class on a terminal with cursor hiding,
\* driven by every operation at one reading of the clock.
InitAll == Init /\ st.file = "tty" /\ st.check_tty /\ st.hide_cursor
                /\ st.max \in {0, 2}

NextAll ==
    \/ CallNext
    \/ CallGoto
    \/ CallFinish
    \/ CallStart
    \/ CallWrite
    \/ CallWriteln
    \/ CallClearln
    \/ IterCall
    \/ IterResume
    \/ ConsumerBreak
    \/ ConsumerRaise
    \/ ConsumerDrop
    \/ WithEnter
    \/ WithExit

SpecAll == InitAll /\ [][NextAll]_vars

\* SpecFn: the derived metrics of a bounded indicator, read at every index,
\* max and elapsed time of a range.
InitFn ==
    /\ now \in 0..MaxClock
    /\ \E i \in -MaxIndex..MaxIndex, m \in -1..(MaxIndex + 2),
          e \in 0..MaxClock :
          st = [init_Progress(Str("m", 1), "none", TRUE, TRUE, m, 0)
                    EXCEPT !.index = i, !.total_used_ts = e]
    /\ gen = NoGen
    /\ op = NoOp
    /\ activeSecs = 0
    /\ exited = FALSE

ReadProgress ==
    /\ op' = [name |-> "progress", arg |-> progress(st), from |-> st.index]
    /\ UNCHANGED <<st, now, gen, activeSecs, exited>>

ReadPercent ==
    /\ op' = [name |-> "percent", arg |-> percent(st), from |-> st.index]
    /\ UNCHANGED <<st, now, gen, activeSecs, exited>>

ReadRemaining ==
    /\ op' = [name |-> "remaining", arg |-> remaining(st), from |-> st.index]
    /\ UNCHANGED <<st, now, gen, activeSecs, exited>>

ReadAvg ==
    /\ op' = [name |-> "avg", arg |-> avg(st, now), from |-> st.index]
    /\ UNCHANGED <<st, now, gen, activeSecs, exited>>

ReadEta ==
    /\ op' = [name |-> "eta", arg |-> eta(st, now), from |-> st.index]
    /\ UNCHANGED <<st, now, gen, activeSecs, exited>>

NextFn ==
    \/ ReadProgress
    \/ ReadPercent
    \/ ReadRemaining
    \/ ReadAvg
    \/ ReadEta

SpecFn == InitFn /\ [][NextFn]_vars

\* ------------------------------------------------------- properties
\* the object without the per-step call bookkeeping
Obj(s) == [s EXCEPT !.calls = NoCalls, !.err = "none"]

\* number of prints of `text` the stream has received
Count(out, text) == Cardinality({i \in 1..Len(out) : out[i] = text})

\* the last cursor sequence on the stream is hide-cursor
CursorHidden(out) ==
    LET idx == {i \in 1..Len(out) : out[i] \in {HIDE_CURSOR, SHOW_CURSOR}}
    IN  /\ idx # {}
        /\ out[CHOOSE i \in idx : \A j \in idx : j <= i] = HIDE_CURSOR

\* the step is a call of the operation `name`: every action but Tick and
\* ProcessExit leaves the clock and the process alone and records its name
Did(name) == op'.name = name /\ now' = now /\ exited' = exited

\* C1: iter() and the with block run start() once on entry and finish()
\* exactly once on exit, on every exit path (sequence exhausted, consumer
\* breaks, consumer's body raises, block left normally or by an exception);
\* finish() is not run while the scope is still open, and a scope that was
\* left has finish() behind it (the indicator is Finished when it renders).
C1_ScopedStartFinish ==
    /\ gen.pc = "created" => gen.starts = 0 /\ gen.finishes = 0
    /\ gen.pc \in {"yielded", "inside"} => gen.starts = 1 /\ gen.finishes = 0
    /\ (gen.pc = "done" /\ gen.exit # "dropped") =>
           /\ gen.starts = 1
           /\ gen.finishes = 1
           /\ Renders(st) => st.shutdown

C1_Witness ==
    /\ gen.kind = "iter" /\ gen.pc = "done" /\ gen.exit = "raise"
    /\ gen.starts = 1 /\ gen.finishes = 1
    /\ Renders(st) /\ st.shutdown

\* C2: finish() called directly after finish(), on an indicator that
\* renders and hides the cursor, raises nothing, prints no second
\* show-cursor (one in total), leaves the handler unregistered and leaves
\* the indicator as the first call left it.
C2_FinishIdempotent ==
    [][(op.name = "finish" /\ Did("finish") /\ Renders(st) /\ st.hide_cursor) =>
          /\ st'.err = "none"
          /\ Count(st'.out, SHOW_CURSOR) = Count(st.out, SHOW_CURSOR)
          /\ st'.atexit = 0
          /\ Obj(st') = Obj(st)]_vars

\* C3: with rendering enabled, elapsed is the number of seconds the
\* indicator has spent Active, whether it is read while Active or while
\* Finished, and after repeated finish() calls.
C3_ElapsedIsActiveTime ==
    (st.err = "none" /\ Renders(st)) => elapsed(st, now) = activeSecs

\* C4: with the stream absent, or not a terminal while check_tty is on,
\* no operation writes anything to the stream or registers an exit handler.
C4_SilentWhenDisabled ==
    (st.file = "none" \/ (st.file = "notty" /\ st.check_tty)) =>
        st.out = <<>> /\ st.atexit = 0

C4_Witness ==
    /\ st.file = "notty" /\ st.check_tty
    /\ op.name = "writeln"
    /\ gen.pc = "inside"
    /\ st.out = <<>> /\ st.atexit = 0

\* C5: the exit handler is registered by the constructor exactly when the
\* indicator renders (is_tty() holds for a present stream) and hide_cursor
\* is on; finish() leaves it unregistered and does not raise, also when it
\* was not registered; while the cursor is hidden the handler is
\* registered; after process exit the cursor is not hidden.
C5_ExitHandler ==
    /\ op.name = "init" =>
           (st.atexit = 1 <=> (st.err = "none" /\ Renders(st) /\ st.hide_cursor))
    /\ st.atexit \in {0, 1}
    /\ op.name = "finish" => st.err = "none"
    /\ (op.name = "finish" /\ Renders(st)) => st.atexit = 0
    /\ (CursorHidden(st.out) /\ ~exited) => st.atexit = 1
    /\ exited => ~CursorHidden(st.out)

C5_Witness ==
    /\ exited
    /\ op.name = "atexit"
    /\ st.calls["finish"] = 1
    /\ Count(st.out, HIDE_CURSOR) = 1
    /\ ~CursorHidden(st.out)

\* C6: progress of the bounded indicator lies in [0, 1] in every reachable
\* state, and is exactly 1 when max <= 0.
C6_ProgressInUnitInterval ==
    (st.cls = "Progress" /\ st.err = "none") =>
        LET p == progress(st)
        IN  /\ p[2] > 0
            /\ 0 <= p[1] /\ p[1] <= p[2]
            /\ st.max <= 0 => p[1] = p[2]

\* C7: the indicator starts Active; with rendering enabled finish() makes
\* it Finished; next(n) and goto(k) on a Finished indicator make it Active,
\* set the start timestamp to the clock and keep the accumulated seconds;
\* on an Active indicator they leave the start timestamp alone; with
\* rendering disabled finish() changes nothing of the indicator.
C7_Lifecycle ==
    /\ ~st.shutdown
    /\ [][/\ (Did("finish") /\ Renders(st)) => st'.shutdown
          /\ (Did("finish") /\ ~Renders(st)) => Obj(st') = Obj(st)
          /\ ((Did("next") \/ Did("goto")) /\ st.shutdown) =>
                 /\ ~st'.shutdown
                 /\ st'.start_ts = now
                 /\ st'.total_used_ts = st.total_used_ts
          /\ ((Did("next") \/ Did("goto")) /\ ~st.shutdown) =>
                 /\ ~st'.shutdown
                 /\ st'.start_ts = st.start_ts
                 /\ st'.total_used_ts = st.total_used_ts]_vars

C7_Witness ==
    /\ op.name = "next"
    /\ ~st.shutdown
    /\ st.start_ts = now /\ now > 0
    /\ st.total_used_ts > 0

\* C8: the bounded indicator's iter() over a sequence of known length n
\* sets max to n once consumption has started, calls next() once per
\* element, each call after the consumer is done with the element, and
\* leaves index n further than at entry (index = n on a fresh indicator)
\* when the sequence has been consumed.
C8_IterSized ==
    (gen.kind = "iter" /\ st.cls = "Progress" /\ gen.sized) =>
        /\ gen.pc = "yielded" =>
               /\ st.max = gen.n
               /\ gen.nexts = gen.k - 1
               /\ st.index = gen.base + gen.k - 1
        /\ (gen.pc = "done" /\ gen.exit = "exhausted") =>
               /\ st.max = gen.n
               /\ gen.k = gen.n
               /\ gen.nexts = gen.n
               /\ st.index = gen.base + gen.n

C8_Witness ==
    /\ gen.kind = "iter" /\ st.cls = "Progress" /\ gen.sized
    /\ gen.pc = "done" /\ gen.exit = "exhausted"
    /\ gen.n = 1 /\ gen.base = 0
    /\ st.max = 1 /\ st.index = 1

\* C9: goto(k) leaves index = k from any state, also backwards, through
\* one call of next() and one call of update(), and leaves the indicator
\* Active.
C9_Goto ==
    op.name = "goto" =>
        /\ st.index = op.arg
        /\ st.calls["next"] = 1
        /\ st.calls["update"] = 1
        /\ ~st.shutdown

C9_Witness ==
    /\ op.name = "goto"
    /\ op.arg < op.from
    /\ st.index = op.arg
    /\ st.start_ts > 0

\* C10: while the indicator stays Active elapsed never decreases (it grows
\* by one with each second and is left alone by next() and goto()); when
\* next() or goto() restarts a Finished indicator, elapsed is the
\* accumulated seconds that finish() banked, which are kept.
C10_ElapsedMonotone ==
    [][/\ (st.err = "none" /\ ~st.shutdown /\ ~st'.shutdown) =>
              /\ elapsed(st', now') >= elapsed(st, now)
              /\ now' = now + 1 => elapsed(st', now') = elapsed(st, now) + 1
              /\ (Did("next") \/ Did("goto")) => elapsed(st', now') = elapsed(st, now)
       /\ ((Did("next") \/ Did("goto")) /\ st.shutdown) =>
              /\ elapsed(st', now') = st.total_used_ts
              /\ st'.total_used_ts = st.total_used_ts]_vars

C10_Witness ==
    /\ op.name = "next"
    /\ ~st.shutdown
    /\ st.total_used_ts > 0
    /\ st.start_ts > 0
    /\ now > st.start_ts
    /\ elapsed(st, now) = st.total_used_ts + 1

\* C11: a bounded indicator made with max = m > 0 on a terminal with
\* cursor hiding, brought to index = m and then finished once, reports
\* percent = 100; the stream holds exactly one hide-cursor, as its first
\* print and before the message, and ends with the one newline and the one
\* show-cursor that finish() printed.
C11_RunToCompletion ==
    (/\ st.cls = "Progress" /\ Renders(st) /\ st.hide_cursor
     /\ op.name = "finish" /\ Count(st.out, NEWLINE) = 1
     /\ st.max > 0 /\ st.index = st.max) =>
        /\ percent(st)[1] = 100 * percent(st)[2]
        /\ Count(st.out, HIDE_CURSOR) = 1
        /\ st.out[1] = HIDE_CURSOR
        /\ st.out[2] = st.message
        /\ Count(st.out, SHOW_CURSOR) = 1
        /\ Len(st.out) = 4
        /\ st.out[3] = NEWLINE
        /\ st.out[4] = SHOW_CURSOR

C11_Witness ==
    /\ st.cls = "Progress" /\ st.file = "tty" /\ st.check_tty /\ st.hide_cursor
    /\ op.name = "finish" /\ Count(st.out, NEWLINE) = 1
    /\ st.max = 2 /\ st.index = 2
    /\ st.calls["finish"] = 1
    /\ Len(st.out) = 4

\* C16: the bounded indicator's iter() over a sequence without a length
\* leaves max as it was before the call, whatever it was, and still yields
\* the elements one by one with next() after each and finish() at the end.
C16_IterUnsized ==
    (gen.kind = "iter" /\ st.cls = "Progress" /\ ~gen.sized) =>
        /\ st.max = gen.max0
        /\ gen.pc = "yielded" =>
               /\ gen.starts = 1 /\ gen.finishes = 0
               /\ gen.nexts = gen.k - 1
        /\ (gen.pc = "done" /\ gen.exit = "exhausted") =>
               /\ gen.k = gen.n
               /\ gen.nexts = gen.n
               /\ gen.finishes = 1

C16_Witness ==
    /\ gen.kind = "iter" /\ st.cls = "Progress" /\ ~gen.sized
    /\ gen.pc = "done" /\ gen.exit = "exhausted"
    /\ gen.n = 1 /\ gen.nexts = 1 /\ gen.finishes = 1
    /\ gen.max0 = 2 /\ st.max = 2

\* C20: in iter() of both classes the increment for an element is made
\* when the consumer asks for the following one: while the consumer holds
\* the k-th element index is k - 1 further than at entry; a consumer that
\* breaks or raises there leaves index k - 1 further when finish() has run;
\* only full consumption of n elements leaves index n further.
C20_IncrementLags ==
    gen.kind = "iter" =>
        /\ gen.pc = "created" => st.index = gen.base
        /\ gen.pc = "yielded" =>
               /\ gen.k >= 1
               /\ st.index = gen.base + gen.k - 1
               /\ gen.nexts = gen.k - 1
        /\ (gen.pc = "done" /\ gen.exit \in {"break", "raise"}) =>
               /\ gen.k >= 1
               /\ gen.finishes = 1
               /\ st.index = gen.base + gen.k - 1
        /\ (gen.pc = "done" /\ gen.exit = "exhausted") =>
               /\ gen.finishes = 1
               /\ st.index = gen.base + gen.n

C20_Witness ==
    /\ gen.kind = "iter" /\ st.cls = "Infinite"
    /\ gen.pc = "done" /\ gen.exit = "break"
    /\ gen.n = 2 /\ gen.k = 2
    /\ gen.finishes = 1
    /\ st.index = gen.base + 1

\* C13: with max = m and index = i, 0 <= i <= m, progress is i / m when
\* m > 0; progress is 1 when m <= 0 (any i >= 0); percent is progress * 100;
\* remaining is max(m - i, 0), and is never negative for any index and max.
C13_Metrics ==
    LET i == st.index
        m == st.max
    IN  /\ (op.name = "progress" /\ m > 0 /\ 0 <= i /\ i <= m) =>
               /\ op.arg[2] > 0
               /\ op.arg[1] * m = i * op.arg[2]
        /\ (op.name = "progress" /\ m <= 0 /\ i >= 0) => op.arg[1] = op.arg[2]
        /\ op.name = "percent" =>
               /\ op.arg[2] > 0
               /\ op.arg[1] * progress(st)[2] = 100 * progress(st)[1] * op.arg[2]
        /\ op.name = "remaining" =>
               /\ op.arg >= 0
               /\ op.arg = IF m - i > 0 THEN m - i ELSE 0

C13_Witness ==
    /\ op.name = "remaining"
    /\ st.index = 3 /\ st.max = 2
    /\ op.arg = 0

C15_IndexFrame ==
    /\ op.name = "init" => st.index = 0
    /\ op.name = "next" => st.index = op.from + op.arg
    /\ op.name = "goto" => st.index = op.arg
    /\ op.name = "resume" =>
           /\ st.calls["next"] \in {0, 1}
           /\ st.index = op.from + st.calls["next"]
    /\ op.name \in {"finish", "start", "write", "writeln", "clearln", "iter",
                    "break", "raise", "drop", "enter", "exit", "atexit"} =>
           st.index = op.from

C15_Witness ==
    /\ op.name = "next"
    /\ Count(st.out, NEWLINE) >= 1
    /\ ~st.shutdown
    /\ op.from = 2
    /\ st.index = op.from + op.arg

\* C18 as stated: on a terminal every next() of a bounded indicator
\* writes exactly one redraw (a print starting with a carriage return) to
\* the stream, and so does start().
C18_NextRedraws ==
    (/\ st.cls = "Progress" /\ st.err = "none" /\ Renders(st)
     /\ op.name \in {"next", "start"}) =>
        /\ Len(st.out) >= 1
        /\ st.out[Len(st.out)][1] = "\r"

\* C18 as amended: every next() and every goto() calls update() exactly
\* once, after the index has changed, and start() of a bounded indicator
\* calls it once (start() of the base indicator does not); update() itself
\* writes nothing, so these calls leave the stream as the constructor or
\* the last finish() left it.
C18_NextUpdatesOnce ==
    /\ op.name \in {"next", "goto"} => st.calls["update"] = 1
    /\ op.name = "start" =>
           st.calls["update"] = IF st.cls = "Progress" THEN 1 ELSE 0
    /\ (op.name \in {"next", "goto", "start"} /\ Renders(st)) =>
           st.out[Len(st.out)] \in {st.message, NEWLINE, SHOW_CURSOR}

C18_Witness ==
    /\ st.cls = "Progress" /\ st.file = "tty" /\ st.check_tty
    /\ op.name = "next" /\ op.arg = 1
    /\ st.index = 2 /\ st.max = 2
    /\ st.calls["update"] = 1
    /\ st.out[Len(st.out)] = st.message

\* the prints of out made by write(): a carriage return, then a line
WriteItems(out) ==
    {i \in 1..Len(out) :
        /\ Len(out[i]) >= 1
        /\ out[i][1] = "\r"
        /\ out[i] # CLEARLN}

\* the length of the fragment a write() item was made from
FragLen(item) == Cardinality({j \in 1..Len(item) : item[j] = "x"})

\* the widest fragment among the write() items out[1..i]
Widest(out, i) ==
    LET lens == {FragLen(out[j]) : j \in {k \in WriteItems(out) : k <= i}}
    IN  IF lens = {} THEN 0 ELSE CHOOSE w \in lens : \A v \in lens : v <= w

\* C12: with rendering enabled, the line of every write() is a carriage
\* return, the message and the fragment padded on the right to
\* max(len(s), widest fragment written before); it is at least as long as
\* the line of every earlier write(); the tracked width is the widest
\* fragment written so far, the current one included.
C12_WritePadding ==
    Renders(st) =>
        /\ \A i \in WriteItems(st.out) :
              /\ st.out[i] = <<"\r">> \o st.message
                                \o ljust(Str("x", FragLen(st.out[i])),
                                         Widest(st.out, i - 1))
              /\ Len(st.out[i]) = 1 + Len(st.message) + Widest(st.out, i)
              /\ \A j \in WriteItems(st.out) :
                    j < i => Len(st.out[j]) <= Len(st.out[i])
        /\ st.width = Widest(st.out, Len(st.out))
        /\ op.name = "write" =>
              /\ Len(st.out) \in WriteItems(st.out)
              /\ FragLen(st.out[Len(st.out)]) = op.arg

C12_Witness ==
    /\ Renders(st)
    /\ op.name = "write" /\ op.arg = 1
    /\ st.width = 2
    /\ st.out[Len(st.out)] = <<"\r", "m", "x", " ">>

\* C14: constructing an indicator on a stream without isatty while
\* check_tty is enabled raises AttributeError, with nothing written and no
\* exit handler registered; with check_tty disabled the same stream raises
\* nothing, the constructor prints as on a terminal, and every later
\* operation prints as on a terminal.
C14_UnsupportedStream ==
    /\ (st.file = "noisatty" /\ st.check_tty) =>
           /\ st.err = "AttributeError"
           /\ st.out = <<>>
           /\ st.atexit = 0
           /\ op = NoOp
    /\ (st.file = "noisatty" /\ ~st.check_tty) =>
           /\ st.err = "none"
           /\ Renders(st)
           /\ Len(st.out) >= 1
           /\ IF st.hide_cursor
              THEN /\ st.out[1] = HIDE_CURSOR
                   /\ st.out[2] = st.message
              ELSE st.out[1] = st.message
           /\ op.name = "init" => st.atexit = (IF st.hide_cursor THEN 1 ELSE 0)
           /\ op.name = "write" => Len(st.out) \in WriteItems(st.out)
           /\ op.name = "clearln" => st.out[Len(st.out)] = CLEARLN
           /\ op.name = "writeln" =>
                  /\ st.out[Len(st.out)] = Str("x", op.arg)
                  /\ st.out[Len(st.out) - 1] = CLEARLN
           /\ op.name = "finish" =>
                  /\ st.shutdown
                  /\ st.out[Len(st.out)] =
                         (IF st.hide_cursor THEN SHOW_CURSOR ELSE NEWLINE)

C14_Witness ==
    /\ st.file = "noisatty" /\ st.check_tty /\ st.hide_cursor
    /\ st.err = "AttributeError"
    /\ st.out = <<>>
    /\ st.atexit = 0

\* C19: the tracked width is 0 right after construction, never decreases
\* from one call to the next within a run, and is 0 again once next() has
\* restarted a Finished indicator.
C19_WidthResetOnRestart ==
    /\ [](op.name = "init" => st.width = 0)
    /\ [][/\ (Did("next") /\ st.shutdown) => st'.width = 0
          /\ ~(Did("next") /\ st.shutdown) => st'.width >= st.width]_vars

====
